---- MODULE Spec2Model ----
(***************************************************************************)
(* A model of the CloudCover TAXII 2.1 client (src/src/cctaxiiclient.rs):  *)
(* the transport classification of `request`, the facade operations        *)
(* `get_discovery` and `get_collections`, and the pagination loop of       *)
(* `get_cc_indicators`.  The server is the environment: it answers every   *)
(* request with one outcome of `ureq::Request::call`.                      *)
(*                                                                         *)
(* Strings built with format! are sequences of tokens, so that             *)
(* concatenation is \o and "is a prefix of" is meaningful.  Option<T> is a *)
(* sequence of length 0 (None) or 1 (Some).                                *)
(***************************************************************************)
EXTENDS Integers, Sequences, FiniteSets, TLC

VARIABLES
    account,         \* CCTaxiiClient.account, fixed by new()
    api_key,         \* the api_key argument of new()
    base_url,        \* CCTaxiiClient.base_url
    common_headers,  \* CCTaxiiClient.common_headers
    op,              \* the operation the caller invoked ("none" before the call)
    args,            \* the arguments of get_cc_indicators
    pc,              \* position of the call: "idle", "resolve", "page", "done"
    root,            \* local `root` of get_cc_indicators / get_collections
    url,             \* local `url` of get_cc_indicators
    all_indicators,  \* local `all_indicators`
    more,            \* local `more`
    result,          \* the value the operation returned
    requests,        \* every request issued so far: its URL, the server's
                     \* reply and what request() returned for it
    calls            \* the calls running concurrently on the client: for each
                     \* its operation, arguments, position, locals, result
                     \* and the requests it sent with their replies

client == <<account, api_key, base_url, common_headers>>

single == <<op, args, pc, root, url, all_indicators, more, result, requests>>

vars == <<client, single, calls>>

----------------------------------------------------------------------------
(* Bounds of the exploration *)

MaxPages == 3        \* objects pages the server is asked for in one call
MaxCollections == 2  \* collections in one listing

(* Sample values of the opaque strings *)
Accounts == {"acct"}
ApiKeys == {"k1"}
CollectionIds == {"X", "Y"}
ObjectLists == {<<>>, <<"o1">>, <<"o2", "o1">>}   \* objects of one envelope
Cursors == {"tok1", "tok2"}
Timestamps == {"t1"}
Limits == {5}
SuppliedIds == {"Z"}
Calls == {1, 2}                                   \* concurrent calls
MatchMaps == {[k \in {"type"} |-> "indicator"]}

(* A wider choice of credentials and of query arguments, for the headers *)
(* and the construction of the first URL                                 *)
QueryAccounts == {"acct", "api"}
QueryApiKeys == {"k1", "secret"}
MatchValues == [type |-> "indicator", id |-> "i1"]
QueryMatchMaps ==
    {[k \in K |-> MatchValues[k]] : K \in {{}, {"type"}, {"type", "id"}}}

----------------------------------------------------------------------------
(* Option<T> *)

None == <<>>

Some(x) == <<x>>

is_some(o) == o # <<>>

unwrap_or(o, default) == IF o = <<>> THEN default ELSE o[1]

(* Result<T> *)

Ok(v) == [tag |-> "Ok", value |-> v]

Err(kind) == [tag |-> "Err", kind |-> kind]

Pending == [tag |-> "Pending"]

(* Sequences over S of length at most n *)
SeqsUpTo(S, n) == UNION {[1..k -> S] : k \in 0..n}

IsPrefix(s, t) == Len(s) <= Len(t) /\ SubSeq(t, 1, Len(s)) = s

----------------------------------------------------------------------------
(* Construction of the client: CCTaxiiClient::new *)

(* str::as_bytes of the sample credentials *)
as_bytes ==
    [acct |-> <<97, 99, 99, 116>>, api |-> <<97, 112, 105>>,
     k1 |-> <<107, 49>>, secret |-> <<115, 101, 99, 114, 101, 116>>]

Base64Alphabet ==
    <<"A", "B", "C", "D", "E", "F", "G", "H", "I", "J", "K", "L", "M",
      "N", "O", "P", "Q", "R", "S", "T", "U", "V", "W", "X", "Y", "Z",
      "a", "b", "c", "d", "e", "f", "g", "h", "i", "j", "k", "l", "m",
      "n", "o", "p", "q", "r", "s", "t", "u", "v", "w", "x", "y", "z",
      "0", "1", "2", "3", "4", "5", "6", "7", "8", "9", "+", "/">>

Sextet(n) == Base64Alphabet[n + 1]

(* base64::encode: three bytes to four characters, padded with '=' *)
RECURSIVE base64_encode(_)
base64_encode(b) ==
    CASE Len(b) = 0 -> <<>>
      [] Len(b) = 1 ->
            <<Sextet(b[1] \div 4), Sextet((b[1] % 4) * 16), "=", "=">>
      [] Len(b) = 2 ->
            <<Sextet(b[1] \div 4),
              Sextet((b[1] % 4) * 16 + b[2] \div 16),
              Sextet((b[2] % 16) * 4), "=">>
      [] OTHER ->
            <<Sextet(b[1] \div 4),
              Sextet((b[1] % 4) * 16 + b[2] \div 16),
              Sextet((b[2] % 16) * 4 + b[3] \div 64),
              Sextet(b[3] % 64)>>
               \o base64_encode(SubSeq(b, 4, Len(b)))

(* authorization that encodes the api key alone *)
authorization_key_only(username, key) ==
    <<"Basic ">> \o base64_encode(as_bytes[key])

(* format!("Basic {}", base64::encode(format!("{username}:{api_key}"))) *)
authorization(username, key) ==
    <<"Basic ">> \o base64_encode(as_bytes[username] \o <<58>> \o as_bytes[key])

new(username, key) ==
    /\ account = username
    /\ api_key = key
    /\ base_url = "https://taxii2.cloudcover.net"
    /\ common_headers =
          << <<"Content-Type", <<"application/taxii+json;version=2.1">> >>,
             <<"Accept", <<"application/taxii+json;version=2.1">> >>,
             <<"Authorization", authorization(username, key)>> >>

----------------------------------------------------------------------------
(* The server side: what one request can be answered with *)

Garbage == [shape |-> "garbage"]

EnvelopeBody(m, n, objs) ==
    [shape |-> "CCEnvelope", more |-> m, next |-> n, objects |-> objs]

CollectionRec(id) ==
    [id |-> id, can_read |-> TRUE, can_write |-> FALSE, name |-> "n", title |-> "t"]

CollectionsBody(cs) == [shape |-> "Collections", collections |-> cs]

DiscoveryBody ==
    [shape |-> "Discovery", api_roots |-> <<"/api/">>, contact |-> "x@y.com",
     default |-> "/api/", description |-> "d", title |-> "t"]

Envelopes ==
    {EnvelopeBody(m, n, objs) :
        m \in {None, Some(TRUE), Some(FALSE)},
        n \in {None} \cup {Some(c) : c \in Cursors},
        objs \in ObjectLists}

Listings ==
    {CollectionsBody([i \in 1..Len(ids) |-> CollectionRec(ids[i])]) :
        ids \in {s \in SeqsUpTo(CollectionIds, MaxCollections) :
                    \A i, j \in 1..Len(s) : i # j => s[i] # s[j]}}

(* A reply is a status line with a body, or no reply at all (DNS, connect, *)
(* timeout).  304 Not Modified carries no body.                            *)
Reply(status, body) == [answered |-> TRUE, status |-> status, body |-> body]

NoReply == [answered |-> FALSE]

ErrorStatuses == {401, 404, 500}

FailedReplies ==
    {Reply(st, Garbage) : st \in ErrorStatuses \cup {304}} \cup {NoReply}

RepliesWith(bodies) ==
    {Reply(200, b) : b \in bodies \cup {Garbage}} \cup FailedReplies

----------------------------------------------------------------------------
(* Transport layer *)

(* ureq 2.x: Request::call gives Err(Error::Status(code, response)) for a *)
(* status >= 400, Err(Error::Transport) when no response was received,    *)
(* and Ok(response) for every other response.                              *)
call(reply) ==
    IF ~reply.answered THEN [tag |-> "Transport"]
    ELSE IF reply.status >= 400
         THEN [tag |-> "Status", code |-> reply.status, response |-> reply]
         ELSE [tag |-> "Ok", response |-> reply]

(* request without the 404 arm *)
request_without_404(reply) ==
    LET r == call(reply) IN
    CASE r.tag = "Ok" -> Ok(r.response)
      [] r.tag = "Status" ->
            CASE r.code = 401 -> Err("TaxiiAuthorizationError")
              [] OTHER -> Err("TaxiiGenericError")
      [] OTHER -> Err("TaxiiConnectionError")

request(reply) ==
    LET r == call(reply) IN
    CASE r.tag = "Ok" -> Ok(r.response)
      [] r.tag = "Status" ->
            CASE r.code = 401 -> Err("TaxiiAuthorizationError")
              [] r.code = 404 -> Err("TaxiiNotFound")
              [] OTHER -> Err("TaxiiGenericError")
      [] OTHER -> Err("TaxiiConnectionError")

(* into_json whose failure is reported as a generic error *)
into_json_generic(response, shape) ==
    IF response.body.shape = shape
    THEN Ok(response.body)
    ELSE Err("TaxiiGenericError")

into_json(response, shape) ==
    IF response.body.shape = shape
    THEN Ok(response.body)
    ELSE Err("JsonDeserializationError")

(* One entry of the request log *)
Issued(u, reply) ==
    [url |-> u, endpoint |-> <<base_url, "/">> \o u, headers |-> common_headers,
     reply |-> reply, result |-> request(reply)]

(* The `?` operator returns the error of a failed step from the function. *)
is_err(res) == res.tag = "Err"

----------------------------------------------------------------------------
(* Client facade *)

get_discovery(reply) ==
    LET response == request(reply) IN
    IF is_err(response) THEN response
    ELSE into_json(response.value, "Discovery")

(* collection_ids that projects the names *)
collection_names(cs) == [i \in 1..Len(cs) |-> cs[i].name]

collection_ids(cs) == [i \in 1..Len(cs) |-> cs[i].id]

get_collections(reply) ==
    LET response == request(reply) IN
    IF is_err(response) THEN response
    ELSE LET collections == into_json(response.value, "Collections") IN
         IF is_err(collections) THEN collections
         ELSE Ok(collection_ids(collections.value.collections))

discovery_endpoint == <<"taxii2/">>

collections_endpoint(r) == <<r, "/collections/">>

----------------------------------------------------------------------------
(* Indicator retrieval engine: the pieces of get_cc_indicators *)

(* needs_listing that lists the collections in every call *)
needs_listing_always(collection_id) == TRUE

(* match collection_id: None asks the server for the collections *)
needs_listing(collection_id) == collection_id = None

(* select_root that ignores `private` *)
select_root_public(private, acct) == "api"

select_root(private, acct) == IF private THEN acct ELSE "api"

(* first_collection that reports a failed listing as "no collection" *)
first_collection_masking(ids) ==
    IF is_err(ids) THEN Err("TaxiiCollectionError")
    ELSE IF ids.value = <<>> THEN Err("TaxiiCollectionError")
    ELSE Ok(ids.value[1])

(* first_collection that takes the last identifier *)
first_collection_last(ids) ==
    IF is_err(ids) THEN ids
    ELSE IF ids.value = <<>> THEN Err("TaxiiCollectionError")
    ELSE Ok(ids.value[Len(ids.value)])

first_collection(ids) ==
    IF is_err(ids) THEN ids
    ELSE IF ids.value = <<>> THEN Err("TaxiiCollectionError")
    ELSE Ok(ids.value[1])

(* HashMap::iter visits the entries in an order the caller does not      *)
(* control: any enumeration of the keys.                                  *)
IterOrders(m) ==
    {s \in [1..Cardinality(DOMAIN m) -> DOMAIN m] :
        \A i, j \in 1..Len(s) : i # j => s[i] # s[j]}

RECURSIVE match_fold(_, _)
match_fold(m, order) ==
    IF order = <<>> THEN <<>>
    ELSE LET k == order[Len(order)]
         IN  match_fold(m, SubSeq(order, 1, Len(order) - 1))
                \o <<"&match[", k, "]=", m[k]>>

match_query(matches, order) ==
    IF is_some(matches) THEN match_fold(matches[1], order) ELSE <<>>

MatchOrders(matches) ==
    IF is_some(matches) THEN IterOrders(matches[1]) ELSE {<<>>}

objects_url(r, collection, limit) ==
    <<r, "/collections/", collection, "/objects/?limit=", ToString(limit)>>

added_after_query(added_after) ==
    IF is_some(added_after) THEN <<"&added_after=", added_after[1]>> ELSE <<>>

(* first_url with the match filters put before added_after *)
first_url_matches_first(r, collection, a, order) ==
    objects_url(r, collection, unwrap_or(a.limit, 1000))
        \o match_query(a.matches, order)
        \o added_after_query(a.added_after)

first_url(r, collection, a, order) ==
    objects_url(r, collection, unwrap_or(a.limit, 1000))
        \o added_after_query(a.added_after)
        \o match_query(a.matches, order)

(* extend that skips objects already accumulated *)
extend_dedup(all, objects) ==
    all \o SelectSeq(objects, LAMBDA o : \A i \in 1..Len(all) : all[i] # o)

(* extend that puts the new page in front *)
extend_front(all, objects) == objects \o all

extend(all, objects) == all \o objects

(* next_more that ignores follow_pages *)
next_more_ignoring_flag(follow_pages, envelope) ==
    unwrap_or(envelope.more, FALSE)

(* next_more that takes an absent `more` as true *)
next_more_default_true(follow_pages, envelope) ==
    follow_pages /\ unwrap_or(envelope.more, TRUE)

next_more(follow_pages, envelope) ==
    follow_pages /\ unwrap_or(envelope.more, FALSE)

(* next_url that replaces the cursor of the page before *)
next_url_replacing(u, envelope) ==
    IF is_some(envelope.next)
    THEN (IF Len(u) >= 2 /\ u[Len(u) - 1] = "&next="
          THEN SubSeq(u, 1, Len(u) - 2) ELSE u) \o <<"&next=", envelope.next[1]>>
    ELSE u

next_url(u, envelope) ==
    IF is_some(envelope.next) THEN u \o <<"&next=", envelope.next[1]>> ELSE u

(* loop_continues that looks at the cursor only *)
loop_continues_on_cursor(m, envelope) == is_some(envelope.next)

(* loop_continues that gives up after two requests *)
loop_continues_capped(m, envelope) ==
    is_some(envelope.next) /\ m /\ Len(requests) < 2

(* loop_continues without the `break` *)
loop_continues_without_break(m, envelope) == m

(* The loop runs again iff it did not `break` and `while more` holds. *)
loop_continues(m, envelope) == is_some(envelope.next) /\ m

IsObjectsUrl(u) == Len(u) >= 4 /\ u[4] = "/objects/?limit="

PageRequests == SelectSeq(requests, LAMBDA q : IsObjectsUrl(q.url))

----------------------------------------------------------------------------
(* The caller's arguments *)

NoArgs ==
    [collection_id |-> None, limit |-> None, private |-> FALSE,
     added_after |-> None, matches |-> None, follow_pages |-> FALSE]

(* Calls with every collection, root and paging choice; limit,            *)
(* added_after and matches are given together or not at all, and their    *)
(* combinations are those of QueryArgSets.                                 *)
ArgSets ==
    {a \in [collection_id : {None} \cup {Some(c) : c \in SuppliedIds},
            limit : {None} \cup {Some(l) : l \in Limits},
            private : BOOLEAN,
            added_after : {None} \cup {Some(t) : t \in Timestamps},
            matches : {None} \cup {Some(m) : m \in MatchMaps},
            follow_pages : BOOLEAN] :
        /\ is_some(a.limit) = is_some(a.added_after)
        /\ is_some(a.added_after) = is_some(a.matches)}

(* Calls that differ in what decides the pagination only *)
PagingArgSets ==
    [collection_id : {None} \cup {Some(c) : c \in SuppliedIds},
     limit : {None}, private : {FALSE}, added_after : {None},
     matches : {None}, follow_pages : BOOLEAN]

(* Single-page calls over the wider query arguments, and the calls that *)
(* follow the pages of the first collection of the private root         *)
QueryArgSets ==
    [collection_id : {None} \cup {Some(c) : c \in SuppliedIds},
     limit : {None} \cup {Some(l) : l \in Limits},
     private : BOOLEAN,
     added_after : {None} \cup {Some(t) : t \in Timestamps},
     matches : {None} \cup {Some(m) : m \in QueryMatchMaps},
     follow_pages : {FALSE}]
    \cup
    [collection_id : {None}, limit : {None}, private : {TRUE},
     added_after : {None}, matches : {None}, follow_pages : {TRUE}]

----------------------------------------------------------------------------
(* State machine *)

IdleCall ==
    [op |-> "none", args |-> NoArgs, pc |-> "idle", root |-> "", url |-> <<>>,
     all_indicators |-> <<>>, more |-> FALSE, result |-> Pending, sent |-> <<>>]

NoCall ==
    /\ calls = [c \in Calls |-> IdleCall]
    /\ op = "none"
    /\ args = NoArgs
    /\ pc = "idle"
    /\ root = ""
    /\ url = <<>>
    /\ all_indicators = <<>>
    /\ more = FALSE
    /\ result = Pending
    /\ requests = <<>>

Init == NoCall /\ \E username \in Accounts, key \in ApiKeys : new(username, key)

InitQuery ==
    NoCall /\ \E username \in QueryAccounts, key \in QueryApiKeys : new(username, key)

(* get_discovery: one request and its decoding *)
GetDiscovery ==
    /\ pc = "idle"
    /\ \E reply \in RepliesWith({DiscoveryBody}) :
        /\ requests' = Append(requests, Issued(discovery_endpoint, reply))
        /\ result' = get_discovery(reply)
    /\ op' = "get_discovery"
    /\ pc' = "done"
    /\ UNCHANGED <<client, calls, args, root, url, all_indicators, more>>

(* get_collections(root) called by the user *)
GetCollections ==
    /\ pc = "idle"
    /\ \E r \in Accounts \cup {"api"}, reply \in RepliesWith(Listings) :
        /\ root' = r
        /\ requests' = Append(requests, Issued(collections_endpoint(r), reply))
        /\ result' = get_collections(reply)
    /\ op' = "get_collections"
    /\ pc' = "done"
    /\ UNCHANGED <<client, calls, args, url, all_indicators, more>>

(* get_cc_indicators up to its first request: lines 216-218 and, when the *)
(* collection is given, 227-239.                                           *)
StartCall(A) ==
    /\ pc = "idle"
    /\ \E a \in A :
        LET r == select_root(a.private, account) IN
        /\ op' = "get_cc_indicators"
        /\ args' = a
        /\ root' = r
        /\ IF needs_listing(a.collection_id)
           THEN /\ url' = <<>>
                /\ pc' = "resolve"
                /\ more' = FALSE
           ELSE /\ \E order \in MatchOrders(a.matches) :
                      url' = first_url(r, a.collection_id[1], a, order)
                /\ pc' = "page"
                /\ more' = TRUE
    /\ all_indicators' = <<>>
    /\ UNCHANGED <<client, calls, result, requests>>

CallGetCcIndicators == StartCall(ArgSets)

CallWithQuery == StartCall(QueryArgSets)

CallPaging == StartCall(PagingArgSets)

(* collection_id is None: get_collections(root)?.get(0), then 227-239 *)
ResolveCollection ==
    /\ op = "get_cc_indicators"
    /\ pc = "resolve"
    /\ \E reply \in RepliesWith(Listings) :
        LET collection == first_collection(get_collections(reply)) IN
        /\ requests' = Append(requests, Issued(collections_endpoint(root), reply))
        /\ IF is_err(collection)
           THEN /\ result' = collection
                /\ pc' = "done"
                /\ UNCHANGED <<url, more>>
           ELSE /\ \E order \in MatchOrders(args.matches) :
                      url' = first_url(root, collection.value, args, order)
                /\ pc' = "page"
                /\ more' = TRUE
                /\ UNCHANGED result
    /\ UNCHANGED <<client, calls, op, args, root, all_indicators>>

(* One iteration of `while more` (lines 240-252) and, when the loop ends, *)
(* the return at line 253.                                                 *)
FetchPage ==
    /\ op = "get_cc_indicators"
    /\ pc = "page"
    /\ more
    /\ Len(PageRequests) < MaxPages
    /\ \E reply \in RepliesWith(Envelopes) :
        LET response == request(reply)
            envelope == IF is_err(response) THEN response
                        ELSE into_json(response.value, "CCEnvelope")
        IN
        /\ requests' = Append(requests, Issued(url, reply))
        /\ IF is_err(envelope)
           THEN /\ result' = envelope
                /\ pc' = "done"
                /\ UNCHANGED <<url, all_indicators, more>>
           ELSE LET all == extend(all_indicators, envelope.value.objects)
                    m == next_more(args.follow_pages, envelope.value)
                IN  /\ all_indicators' = all
                    /\ more' = m
                    /\ url' = next_url(url, envelope.value)
                    /\ IF loop_continues(m, envelope.value)
                       THEN /\ pc' = "page"
                            /\ UNCHANGED result
                       ELSE /\ pc' = "done"
                            /\ result' = Ok(all)
    /\ UNCHANGED <<client, calls, op, args, root>>

Next ==
    \/ GetDiscovery
    \/ GetCollections
    \/ CallGetCcIndicators
    \/ ResolveCollection
    \/ FetchPage

Spec == Init /\ [][Next]_vars

(* The same operations, with get_cc_indicators called for a single page *)
(* over the wider query arguments.                                       *)
NextQuery ==
    \/ GetDiscovery
    \/ GetCollections
    \/ CallWithQuery
    \/ ResolveCollection
    \/ FetchPage

SpecQuery == InitQuery /\ [][NextQuery]_vars

(* One get_cc_indicators call in which every request the call is waiting *)
(* to make is made and answered: ureq blocks until the response or the   *)
(* 30 s timeout, then the call goes on.                                   *)
NextLive ==
    \/ CallPaging
    \/ ResolveCollection
    \/ FetchPage

SpecLive ==
    /\ Init
    /\ [][NextLive]_vars
    /\ WF_vars(ResolveCollection)
    /\ WF_vars(FetchPage)

----------------------------------------------------------------------------
(* Concurrent calls on one client.  The methods take &self and keep root, *)
(* url, all_indicators and more in locals, so every call has its own; the *)
(* steps of different calls interleave at their requests.                 *)

Sent(u, reply) == [url |-> u, reply |-> reply]

(* get_cc_indicators up to its first request (lines 216-218, 227-239) *)
start_call(a, acct, order) ==
    LET r == select_root(a.private, acct)
        listing == needs_listing(a.collection_id)
    IN  [op |-> "get_cc_indicators", args |-> a, root |-> r,
         pc |-> IF listing THEN "resolve" ELSE "page",
         url |-> IF listing THEN <<>>
                 ELSE first_url(r, a.collection_id[1], a, order),
         all_indicators |-> <<>>, more |-> ~listing,
         result |-> Pending, sent |-> <<>>]

(* get_collections(root)?.get(0) and lines 227-239 *)
resolve_step(l, reply, order) ==
    LET collection == first_collection(get_collections(reply))
        s == Append(l.sent, Sent(collections_endpoint(l.root), reply))
    IN  IF is_err(collection)
        THEN [l EXCEPT !.result = collection, !.pc = "done", !.sent = s]
        ELSE [l EXCEPT !.url = first_url(l.root, collection.value, l.args, order),
                       !.pc = "page", !.more = TRUE, !.sent = s]

(* one iteration of the loop (lines 240-252) and the return at 253 *)
page_step(l, reply) ==
    LET response == request(reply)
        envelope == IF is_err(response) THEN response
                    ELSE into_json(response.value, "CCEnvelope")
        s == Append(l.sent, Sent(l.url, reply))
    IN  IF is_err(envelope)
        THEN [l EXCEPT !.result = envelope, !.pc = "done", !.sent = s]
        ELSE LET all == extend(l.all_indicators, envelope.value.objects)
                 m == next_more(l.args.follow_pages, envelope.value)
                 again == loop_continues(m, envelope.value)
             IN  [l EXCEPT !.all_indicators = all,
                           !.more = m,
                           !.url = next_url(l.url, envelope.value),
                           !.pc = IF again THEN "page" ELSE "done",
                           !.result = IF again THEN Pending ELSE Ok(all),
                           !.sent = s]

(* the locals of call 1 seen by every call *)
locals_shared(c) ==
    [calls[c] EXCEPT !.url = calls[1].url,
                     !.all_indicators = calls[1].all_indicators]

(* the stack frame of call c *)
locals(c) == calls[c]

ConcEnvelopes ==
    {EnvelopeBody(m, n, objs) :
        m \in {Some(TRUE), Some(FALSE)},
        n \in {None, Some("tok1")},
        objs \in {<<"o1">>, <<"o2", "o1">>}}

ConcListings ==
    {CollectionsBody(<<>>), CollectionsBody(<<CollectionRec("X")>>)}

ConcRepliesWith(bodies) ==
    {Reply(200, b) : b \in bodies} \cup {Reply(404, Garbage)}

ConcArgSets ==
    [collection_id : {None} \cup {Some(c) : c \in SuppliedIds},
     limit : {None}, private : {FALSE}, added_after : {None},
     matches : {None}, follow_pages : BOOLEAN]

ConcDiscovery(c) ==
    /\ calls[c].pc = "idle"
    /\ \E reply \in ConcRepliesWith({DiscoveryBody}) :
        calls' = [calls EXCEPT ![c] =
                    [locals(c) EXCEPT !.op = "get_discovery",
                                      !.pc = "done",
                                      !.result = get_discovery(reply),
                                      !.sent = <<Sent(discovery_endpoint, reply)>>]]
    /\ UNCHANGED <<client, single>>

ConcCollections(c) ==
    /\ calls[c].pc = "idle"
    /\ \E reply \in ConcRepliesWith(ConcListings) :
        calls' = [calls EXCEPT ![c] =
                    [locals(c) EXCEPT !.op = "get_collections",
                                      !.root = "api",
                                      !.pc = "done",
                                      !.result = get_collections(reply),
                                      !.sent = <<Sent(collections_endpoint("api"), reply)>>]]
    /\ UNCHANGED <<client, single>>

ConcStart(c) ==
    /\ calls[c].pc = "idle"
    /\ \E a \in ConcArgSets :
        \E order \in MatchOrders(a.matches) :
            calls' = [calls EXCEPT ![c] = start_call(a, account, order)]
    /\ UNCHANGED <<client, single>>

ConcResolve(c) ==
    /\ calls[c].op = "get_cc_indicators"
    /\ calls[c].pc = "resolve"
    /\ \E reply \in ConcRepliesWith(ConcListings),
          order \in MatchOrders(calls[c].args.matches) :
        calls' = [calls EXCEPT ![c] = resolve_step(locals(c), reply, order)]
    /\ UNCHANGED <<client, single>>

ConcFetch(c) ==
    /\ calls[c].op = "get_cc_indicators"
    /\ calls[c].pc = "page"
    /\ calls[c].more
    /\ Len(SelectSeq(calls[c].sent, LAMBDA q : IsObjectsUrl(q.url))) < MaxPages
    /\ \E reply \in ConcRepliesWith(ConcEnvelopes) :
        calls' = [calls EXCEPT ![c] = page_step(locals(c), reply)]
    /\ UNCHANGED <<client, single>>

NextConc ==
    \E c \in Calls :
        \/ ConcDiscovery(c)
        \/ ConcCollections(c)
        \/ ConcStart(c)
        \/ ConcResolve(c)
        \/ ConcFetch(c)

SpecConc == Init /\ [][NextConc]_vars

----------------------------------------------------------------------------
(* Vocabulary of the properties *)

InCall == op = "get_cc_indicators"

Listed == InCall /\ args.collection_id = None /\ Len(requests) >= 1

(* The reply is a 2xx response whose body has the given shape. *)
GoodReply(reply, shape) ==
    /\ reply.answered
    /\ reply.status \in 200..299
    /\ reply.body.shape = shape

GoodPage(q) == GoodReply(q.reply, "CCEnvelope")

AllGood(P) == \A i \in 1..Len(P) : GoodPage(P[i])

RECURSIVE Concatenation(_)
Concatenation(P) ==
    IF P = <<>> THEN <<>>
    ELSE Concatenation(SubSeq(P, 1, Len(P) - 1)) \o P[Len(P)].reply.body.objects

Continues(q) ==
    q.reply.body.more = Some(TRUE) /\ is_some(q.reply.body.next)

ExpectedRoot == IF args.private THEN account ELSE "api"

(* The values of the next= parameters of a URL, in order *)
NextParams(u) ==
    LET at == SelectSeq([i \in 1..Len(u) |-> i], LAMBDA i : u[i] = "&next=")
    IN  [j \in 1..Len(at) |-> u[at[j] + 1]]

----------------------------------------------------------------------------
(* C1: with follow_pages=true, when the server has answered the page      *)
(* requests so far with envelopes that all but the last have more=true    *)
(* and a next cursor, the call is still fetching if the last one also has *)
(* more=true and a cursor, and has returned Ok with the concatenation of  *)
(* all object lists, in page and in-page order, if the last one has       *)
(* more=false: N+1 envelopes, N+1 page requests.                          *)
C1_FollowPagesConcatenation ==
    LET P == PageRequests IN
    (/\ InCall
     /\ args.follow_pages
     /\ Len(P) >= 1
     /\ AllGood(P)
     /\ \A i \in 1..(Len(P) - 1) : Continues(P[i]))
    => /\ Continues(P[Len(P)]) => pc = "page" /\ result = Pending
       /\ P[Len(P)].reply.body.more = Some(FALSE)
            => pc = "done" /\ result = Ok(Concatenation(P))

C1_Witness ==
    /\ InCall
    /\ args.follow_pages
    /\ pc = "done"
    /\ Len(PageRequests) = 3
    /\ AllGood(PageRequests)
    /\ PageRequests[3].reply.body.more = Some(FALSE)
    /\ result.tag = "Ok"
    /\ result.value = <<"o1", "o2", "o1", "o1">>

(* C2 as stated: with follow_pages=false and a first envelope, the call  *)
(* issues exactly one request to the server and returns that page.        *)
C2_Original ==
    (/\ InCall
     /\ ~args.follow_pages
     /\ Len(PageRequests) >= 1
     /\ GoodPage(PageRequests[1]))
    => /\ Len(requests) = 1
       /\ pc = "done"
       /\ result = Ok(PageRequests[1].reply.body.objects)

(* C2 amended: with follow_pages=false the call issues at most one        *)
(* objects request, preceded by one collections listing request exactly   *)
(* when collection_id is omitted; given a first envelope it has returned  *)
(* that page's objects only.                                              *)
C2_SingleObjectsRequest ==
    (InCall /\ ~args.follow_pages)
    => /\ Len(PageRequests) <= 1
       /\ Len(requests) <= Len(PageRequests)
                             + (IF args.collection_id = None THEN 1 ELSE 0)
       /\ (Len(PageRequests) = 1 /\ GoodPage(PageRequests[1]))
            => /\ Len(requests) = (IF args.collection_id = None THEN 2 ELSE 1)
               /\ pc = "done"
               /\ result = Ok(PageRequests[1].reply.body.objects)

C2_Witness ==
    /\ InCall
    /\ ~args.follow_pages
    /\ args.collection_id = None
    /\ Len(requests) = 2
    /\ Len(PageRequests) = 1
    /\ GoodPage(PageRequests[1])
    /\ Continues(PageRequests[1])
    /\ result = Ok(<<"o2", "o1">>)

(* C3: an envelope without a next cursor is the last page requested, and  *)
(* the call has returned Ok with everything accumulated, whatever         *)
(* follow_pages and the envelope's more are.                              *)
C3_MissingCursorStops ==
    LET P == PageRequests IN
    InCall =>
        \A i \in 1..Len(P) :
            (GoodPage(P[i]) /\ P[i].reply.body.next = None)
            => /\ i = Len(P)
               /\ pc = "done"
               /\ result = Ok(Concatenation(P))

C3_Witness ==
    /\ InCall
    /\ args.follow_pages
    /\ Len(PageRequests) = 2
    /\ GoodPage(PageRequests[2])
    /\ PageRequests[2].reply.body.more = Some(TRUE)
    /\ PageRequests[2].reply.body.next = None
    /\ result = Ok(<<"o1", "o2", "o1">>)

(* C4: an envelope whose more is absent or false is the last page         *)
(* requested, even with follow_pages=true and a next cursor in it.        *)
C4_NoMoreStops ==
    LET P == PageRequests IN
    InCall =>
        \A i \in 1..Len(P) :
            (GoodPage(P[i]) /\ P[i].reply.body.more \in {None, Some(FALSE)})
            => i = Len(P) /\ pc = "done"

C4_Witness ==
    /\ InCall
    /\ args.follow_pages
    /\ Len(PageRequests) = 2
    /\ GoodPage(PageRequests[2])
    /\ PageRequests[2].reply.body.more = None
    /\ is_some(PageRequests[2].reply.body.next)
    /\ pc = "done"

(* The error kind of a failed request: no reply, or a 4xx/5xx status. *)
FailedReply(reply) == ~reply.answered \/ reply.status \in 400..599

FailureKind(reply) ==
    CASE ~reply.answered -> "TaxiiConnectionError"
      [] reply.answered /\ reply.status = 401 -> "TaxiiAuthorizationError"
      [] reply.answered /\ reply.status = 404 -> "TaxiiNotFound"
      [] OTHER -> "TaxiiGenericError"

(* C5: a page request that fails is the last request of the call, and the *)
(* call has returned Err with that failure's kind, whatever was           *)
(* accumulated from the pages before it.                                  *)
C5_PageFailureAborts ==
    LET P == PageRequests IN
    InCall =>
        \A i \in 1..Len(P) :
            FailedReply(P[i].reply)
            => /\ i = Len(P)
               /\ requests[Len(requests)] = P[i]
               /\ pc = "done"
               /\ result = Err(FailureKind(P[i].reply))

C5_Witness ==
    /\ InCall
    /\ Len(PageRequests) = 3
    /\ PageRequests[3].reply.answered
    /\ PageRequests[3].reply.status = 404
    /\ Len(all_indicators) = 2
    /\ result = Err("TaxiiNotFound")

(* C6 as stated: for every request issued, request() returns              *)
(* AuthorizationError for 401, NotFound for 404, GenericError for every   *)
(* other non-2xx status, ConnectionError when there was no reply, and     *)
(* Ok(response) for a 2xx status only.                                    *)
C6_StatusMapping ==
    \A i \in 1..Len(requests) :
        LET reply == requests[i].reply
            res == requests[i].result
        IN  /\ ~reply.answered => res = Err("TaxiiConnectionError")
            /\ reply.answered =>
                 CASE reply.status = 401 -> res = Err("TaxiiAuthorizationError")
                   [] reply.status = 404 -> res = Err("TaxiiNotFound")
                   [] reply.status \in 200..299 -> res = Ok(reply)
                   [] OTHER -> res = Err("TaxiiGenericError")

C8_InvalidCollectionId ==
    (/\ InCall
     /\ is_some(args.collection_id)
     /\ Len(requests) >= 1
     /\ requests[1].reply.answered
     /\ requests[1].reply.status = 404)
    => result = Err("TaxiiCollectionError")

(* C9: every request of a get_cc_indicators call, the collections listing *)
(* and each objects page, is made under root "api" when private=false and *)
(* under the account name when private=true.                              *)
C9_RootSelection ==
    InCall =>
        \A i \in 1..Len(requests) :
            /\ requests[i].url[1] = ExpectedRoot
            /\ requests[i].url[2] = "/collections/"

C9_Witness ==
    /\ Listed
    /\ args.private
    /\ account = "acct"
    /\ Len(requests) = 3
    /\ requests[1].url = <<"acct", "/collections/">>
    /\ requests[3].url[1] = "acct"

(* C10 as stated: the first objects request carries no next parameter and *)
(* every later one carries a single next parameter, the cursor of the     *)
(* envelope just before it.                                               *)
C10_SingleNextParameter ==
    LET P == PageRequests IN
    InCall =>
        \A i \in 1..Len(P) :
            /\ IsObjectsUrl(P[i].url)
            /\ i = 1 => NextParams(P[i].url) = <<>>
            /\ i > 1 => NextParams(P[i].url) = <<P[i - 1].reply.body.next[1]>>

----------------------------------------------------------------------------
(* The match[..] parameters of the tail t of a URL are one group of four *)
(* tokens per key of m, each key once, with its value.                    *)
IsMatchTail(t, m) ==
    LET n == Cardinality(DOMAIN m) IN
    /\ Len(t) = 4 * n
    /\ \A j \in 0..(n - 1) :
        /\ t[4 * j + 1] = "&match["
        /\ t[4 * j + 2] \in DOMAIN m
        /\ t[4 * j + 3] = "]="
        /\ t[4 * j + 4] = m[t[4 * j + 2]]
    /\ \A i, j \in 0..(n - 1) : i # j => t[4 * i + 2] # t[4 * j + 2]

(* C11: the URL of the first objects request is the base path with        *)
(* limit= the supplied value, or 1000 when absent, then added_after= the  *)
(* timestamp exactly when one is supplied, then one match[key]=value per  *)
(* entry of matches (none when matches is absent), and nothing else.      *)
C11_FirstUrl ==
    (InCall /\ Len(PageRequests) >= 1)
    => LET u == PageRequests[1].url
           lim == IF args.limit = None THEN "1000" ELSE ToString(args.limit[1])
           k == IF args.added_after = None THEN 5 ELSE 7
       IN  /\ Len(u) >= k
           /\ u[1] = ExpectedRoot
           /\ u[2] = "/collections/"
           /\ u[4] = "/objects/?limit="
           /\ u[5] = lim
           /\ args.added_after # None
                => u[6] = "&added_after=" /\ u[7] = args.added_after[1]
           /\ IF args.matches = None
              THEN Len(u) = k
              ELSE IsMatchTail(SubSeq(u, k + 1, Len(u)), args.matches[1])

C11_Witness ==
    /\ InCall
    /\ Len(PageRequests) = 1
    /\ PageRequests[1].url =
          <<"acct", "/collections/", "Z", "/objects/?limit=", "1000",
            "&added_after=", "t1",
            "&match[", "id", "]=", "i1", "&match[", "type", "]=", "indicator">>

(* A 2xx reply whose body does not have the expected shape *)
Undecodable(reply, shape) ==
    /\ reply.answered
    /\ reply.status \in 200..299
    /\ reply.body.shape # shape

(* C12: a body that does not decode makes get_discovery and               *)
(* get_collections return JsonDeserializationError; in get_cc_indicators  *)
(* an undecodable page is the last request of the call, which has         *)
(* returned JsonDeserializationError and no objects.                      *)
C12_DecodeFailure ==
    /\ (op = "get_discovery" /\ Undecodable(requests[1].reply, "Discovery"))
       => result = Err("JsonDeserializationError")
    /\ (op = "get_collections" /\ Undecodable(requests[1].reply, "Collections"))
       => result = Err("JsonDeserializationError")
    /\ InCall =>
        \A i \in 1..Len(PageRequests) :
            Undecodable(PageRequests[i].reply, "CCEnvelope")
            => /\ i = Len(PageRequests)
               /\ requests[Len(requests)] = PageRequests[i]
               /\ pc = "done"
               /\ result = Err("JsonDeserializationError")

C12_Witness ==
    /\ InCall
    /\ Len(PageRequests) = 2
    /\ Undecodable(PageRequests[2].reply, "CCEnvelope")
    /\ Len(all_indicators) = 2
    /\ result = Err("JsonDeserializationError")

(* C15: get_collections(root) issues one request, to {root}/collections/, *)
(* and from a decodable listing returns the identifiers, one per          *)
(* collection in the order listed, and nothing but the identifiers.       *)
C15_CollectionIds ==
    op = "get_collections"
    => /\ Len(requests) = 1
       /\ requests[1].url = <<root, "/collections/">>
       /\ GoodReply(requests[1].reply, "Collections")
          => LET cs == requests[1].reply.body.collections IN
             /\ result.tag = "Ok"
             /\ Len(result.value) = Len(cs)
             /\ \A i \in 1..Len(cs) : result.value[i] = cs[i].id

C15_Witness ==
    /\ op = "get_collections"
    /\ requests[1].url = <<"acct", "/collections/">>
    /\ GoodReply(requests[1].reply, "Collections")
    /\ result = Ok(<<"Y", "X">>)
    /\ requests[1].reply.body.collections[1].can_read

(* C16: with follow_pages=true, while every page so far was answered with *)
(* more=true and a next cursor the call has not returned and its next     *)
(* page request can be issued: no number of pages makes it stop.          *)
C16_NoPageBound ==
    LET P == PageRequests IN
    (/\ InCall
     /\ args.follow_pages
     /\ Len(P) >= 1
     /\ AllGood(P)
     /\ \A i \in 1..Len(P) : Continues(P[i]))
    => /\ pc = "page"
       /\ more
       /\ result = Pending
       /\ Len(P) < MaxPages => ENABLED FetchPage

C16_Witness ==
    /\ InCall
    /\ args.follow_pages
    /\ Len(PageRequests) = MaxPages
    /\ AllGood(PageRequests)
    /\ \A i \in 1..Len(PageRequests) : Continues(PageRequests[i])
    /\ pc = "page"

RECURSIVE ObjectCount(_)
ObjectCount(P) ==
    IF P = <<>> THEN 0
    ELSE ObjectCount(SubSeq(P, 1, Len(P) - 1)) + Len(P[Len(P)].reply.body.objects)

(* C17: the sequence returned has as many elements as the fetched pages   *)
(* have objects together: repeated objects are kept and the total is not  *)
(* cut to limit.                                                          *)
C17_NoDedupNoTruncation ==
    (InCall /\ result.tag = "Ok")
    => /\ AllGood(PageRequests)
       /\ Len(result.value) = ObjectCount(PageRequests)

C17_Witness ==
    /\ InCall
    /\ args.limit = Some(5)
    /\ Len(PageRequests) = 3
    /\ result = Ok(<<"o2", "o1", "o2", "o1", "o2", "o1">>)

ListingRequests == SelectSeq(requests, LAMBDA q : Len(q.url) = 2)

(* C19: a call with a collection_id issues no collections listing         *)
(* request; a call without one issues exactly one, as its first request,  *)
(* answered before any objects request is issued.                         *)
C19_ResolutionOrder ==
    InCall =>
        IF args.collection_id # None
        THEN /\ Len(ListingRequests) = 0
             /\ pc # "resolve"
        ELSE /\ Len(ListingRequests) = (IF pc = "resolve" THEN 0 ELSE 1)
             /\ Len(requests) >= 1
                  => requests[1].url = <<ExpectedRoot, "/collections/">>
             /\ \A i \in 2..Len(requests) : IsObjectsUrl(requests[i].url)

C19_Witness ==
    /\ InCall
    /\ args.collection_id = None
    /\ Len(requests) = 3
    /\ Len(ListingRequests) = 1
    /\ Len(PageRequests) = 2

(* C20: the URL of every objects request after the first extends the URL  *)
(* of the request before it, so that all of them begin with the first     *)
(* URL and differ from it in next parameters only.                        *)
C20_UrlMonotone ==
    LET P == PageRequests IN
    InCall =>
        \A i \in 2..Len(P) :
            /\ Len(P[i - 1].url) < Len(P[i].url)
            /\ IsPrefix(P[i - 1].url, P[i].url)
            /\ IsPrefix(P[1].url, P[i].url)
            /\ \A j \in (Len(P[1].url) + 1)..Len(P[i].url) :
                  (j - Len(P[1].url)) % 2 = 1 => P[i].url[j] = "&next="

C20_Witness ==
    /\ InCall
    /\ args.added_after # None
    /\ args.matches # None
    /\ Len(PageRequests) = 3
    /\ PageRequests[3].url
         = PageRequests[1].url \o <<"&next=", "tok1", "&next=", "tok2">>

(* "Basic " + base64(username + ":" + api_key), written out *)
ExpectedAuthorization ==
    [acct |->
        [k1 |-> <<"Basic ", "Y", "W", "N", "j", "d", "D", "p", "r", "M", "Q", "=", "=">>,
         secret |-> <<"Basic ", "Y", "W", "N", "j", "d", "D", "p", "z", "Z", "W",
                      "N", "y", "Z", "X", "Q", "=">>],
     api |->
        [k1 |-> <<"Basic ", "Y", "X", "B", "p", "O", "m", "s", "x">>,
         secret |-> <<"Basic ", "Y", "X", "B", "p", "O", "n", "N", "l", "Y", "3",
                      "J", "l", "d", "A", "=", "=">>]]

(* C14: every request of every operation carries exactly three headers:   *)
(* Content-Type and Accept application/taxii+json;version=2.1, and        *)
(* Authorization "Basic " + base64(username:api_key) of the credentials   *)
(* the client was constructed with.                                       *)
C14_Headers ==
    \A i \in 1..Len(requests) :
        requests[i].headers =
            << <<"Content-Type", <<"application/taxii+json;version=2.1">> >>,
               <<"Accept", <<"application/taxii+json;version=2.1">> >>,
               <<"Authorization", ExpectedAuthorization[account][api_key]>> >>

C14_Witness ==
    /\ InCall
    /\ account = "acct"
    /\ api_key = "secret"
    /\ Len(ListingRequests) = 1
    /\ Len(PageRequests) = 2
    /\ requests[3].headers[3][2] = ExpectedAuthorization["acct"]["secret"]

(* A page reply after which no further page is fetched: a failed or       *)
(* undecodable one, or an envelope with more absent/false or no cursor.   *)
Stops(q) ==
    \/ ~GoodPage(q)
    \/ q.reply.body.more \in {None, Some(FALSE)}
    \/ q.reply.body.next = None

StopsAtFirst ==
    InCall =>
        \A i \in 1..Len(PageRequests) :
            Stops(PageRequests[i]) => i = Len(PageRequests) /\ pc = "done"

(* The server has answered MaxPages pages and none of them stops the call *)
StillPaging ==
    /\ pc = "page"
    /\ Len(PageRequests) = MaxPages
    /\ \A i \in 1..Len(PageRequests) : ~Stops(PageRequests[i])

(* C18: when every request is answered, a call returns unless the server  *)
(* keeps answering with envelopes that have more=true and a cursor, and a *)
(* reply that stops the paging is the last page requested, on which the   *)
(* call has returned.                                                     *)
C18_Termination ==
    /\ [](InCall => <>(pc = "done" \/ StillPaging))
    /\ []StopsAtFirst

C18_Witness ==
    /\ InCall
    /\ args.follow_pages
    /\ Len(PageRequests) = 3
    /\ Stops(PageRequests[3])
    /\ GoodPage(PageRequests[3])
    /\ pc = "done"
    /\ result.tag = "Ok"

(* The call with arguments a run on its own against the replies rs: the   *)
(* steps of get_cc_indicators taken one after the other.                  *)
RECURSIVE Replay(_, _)
Replay(l, rs) ==
    IF rs = <<>> \/ l.pc = "done" THEN l
    ELSE Replay(IF l.pc = "resolve" THEN resolve_step(l, Head(rs), <<>>)
                ELSE page_step(l, Head(rs)),
                Tail(rs))

RepliesOf(l) == [i \in 1..Len(l.sent) |-> l.sent[i].reply]

Alone(l) ==
    CASE l.op = "get_cc_indicators" ->
            Replay(start_call(l.args, account, <<>>), RepliesOf(l))
      [] l.op = "get_discovery" ->
            [IdleCall EXCEPT !.op = "get_discovery", !.pc = "done",
                             !.result = get_discovery(l.sent[1].reply),
                             !.sent = <<Sent(discovery_endpoint, l.sent[1].reply)>>]
      [] l.op = "get_collections" ->
            [IdleCall EXCEPT !.op = "get_collections", !.pc = "done",
                             !.root = "api",
                             !.result = get_collections(l.sent[1].reply),
                             !.sent = <<Sent(collections_endpoint("api"), l.sent[1].reply)>>]
      [] OTHER -> IdleCall

NoInterference == \A c \in Calls : calls[c] = Alone(calls[c])

(* C13: in every interleaving of the calls running on one client, each    *)
(* call's URLs, accumulator and result are those of the same call run     *)
(* alone against the replies it received, and no step changes the         *)
(* client's account, base URL or headers.                                 *)
C13_Concurrency ==
    /\ []NoInterference
    /\ [][client' = client]_vars

C13_Witness ==
    /\ calls[1].op = "get_cc_indicators"
    /\ calls[1].pc = "page"
    /\ Len(calls[1].sent) = 2
    /\ calls[1].all_indicators = <<"o1", "o2", "o1">>
    /\ calls[2].op = "get_cc_indicators"
    /\ calls[2].pc = "page"
    /\ Len(calls[2].sent) = 2
    /\ calls[2].url # calls[1].url
    /\ calls[2].all_indicators = <<"o2", "o1">>

(* C21: when collection_id is omitted and the collections-listing request *)
(* fails (no reply, or a 4xx/5xx status) or its 2xx body is not a         *)
(* collections listing, the listing is the only request of the call,      *)
(* which has returned Err with the kind of that failure                    *)
(* (TaxiiAuthorizationError, TaxiiNotFound, TaxiiGenericError,             *)
(* TaxiiConnectionError or JsonDeserializationError), never               *)
(* TaxiiCollectionError.                                                   *)
C21_ListingFailure ==
    Listed =>
        LET q == requests[1]
            Aborted(kind) ==
                /\ requests = <<q>>
                /\ PageRequests = <<>>
                /\ pc = "done"
                /\ result = Err(kind)
                /\ kind # "TaxiiCollectionError"
        IN  /\ q.url = collections_endpoint(ExpectedRoot)
            /\ FailedReply(q.reply) => Aborted(FailureKind(q.reply))
            /\ Undecodable(q.reply, "Collections")
                   => Aborted("JsonDeserializationError")

C21_Witness ==
    /\ Listed
    /\ args.private
    /\ requests = <<Issued(collections_endpoint(account), Reply(401, Garbage))>>
    /\ pc = "done"
    /\ result = Err("TaxiiAuthorizationError")

====
